---- MODULE Spec2Model ----
(***************************************************************************)
(* Model of silencer (src/main.py): a single-endpoint webhook bridge that  *)
(* turns a Mattermost slash command into one Alertmanager silence.         *)
(*                                                                         *)
(* A Python string is modelled as the sequence of its characters, so "2h"  *)
(* is <<"2", "h">>.  An ASCII character is the one-character string; a     *)
(* character beyond ASCII is written by its code point, as in "U+00A0".    *)
(* A literal of the program that is only passed along is one element.      *)
(* An Optional[str] is a record [set, val].                                *)
(***************************************************************************)
EXTENDS Integers, Sequences, FiniteSets, TLC

VARIABLES
    environ,   \* os.environ: the variables the program reads
    config,    \* the module-level Config() object (main.py:91)
    clock,     \* the wall clock, UTC: [ord, sec, us]
    startup,   \* history: os.environ as it was when the process started
    tasks,     \* one record per request task of the server
    arg,       \* argument of a direct call of one of the pure functions
    ret        \* what that call returned or raised

vars == <<environ, config, clock, startup, tasks, arg, ret>>

(***************************************************************************)
(* Bounds of the model.                                                    *)
(***************************************************************************)
MaxDurationLen == 4     \* longest duration string enumerated exhaustively
MaxTextLen == 8         \* longest command text enumerated exhaustively
MaxTicks == 1           \* how often the clock advances in a run

(***************************************************************************)
(* Characters and the str methods the program uses.                        *)
(***************************************************************************)
Strings(alphabet, n) == UNION {[1..k -> alphabet] : k \in 0..n}

\* The decimal digits (category Nd) of Unicode 15.0, the version of python3.12
\* (main.py:1), by value: what the regex class \d matches and int() converts.
Digits0 ==
    {"0", "U+0660", "U+06F0", "U+07C0", "U+0966", "U+09E6", "U+0A66",
     "U+0AE6", "U+0B66", "U+0BE6", "U+0C66", "U+0CE6", "U+0D66", "U+0DE6",
     "U+0E50", "U+0ED0", "U+0F20", "U+1040", "U+1090", "U+17E0", "U+1810",
     "U+1946", "U+19D0", "U+1A80", "U+1A90", "U+1B50", "U+1BB0", "U+1C40",
     "U+1C50", "U+A620", "U+A8D0", "U+A900", "U+A9D0", "U+A9F0", "U+AA50",
     "U+ABF0", "U+FF10", "U+104A0", "U+10D30", "U+11066", "U+110F0",
     "U+11136", "U+111D0", "U+112F0", "U+11450", "U+114D0", "U+11650",
     "U+116C0", "U+11730", "U+118E0", "U+11950", "U+11C50", "U+11D50",
     "U+11DA0", "U+11F50", "U+16A60", "U+16AC0", "U+16B50", "U+1D7CE",
     "U+1D7D8", "U+1D7E2", "U+1D7EC", "U+1D7F6", "U+1E140", "U+1E2F0",
     "U+1E4F0", "U+1E950", "U+1FBF0"}

Digits1 ==
    {"1", "U+0661", "U+06F1", "U+07C1", "U+0967", "U+09E7", "U+0A67",
     "U+0AE7", "U+0B67", "U+0BE7", "U+0C67", "U+0CE7", "U+0D67", "U+0DE7",
     "U+0E51", "U+0ED1", "U+0F21", "U+1041", "U+1091", "U+17E1", "U+1811",
     "U+1947", "U+19D1", "U+1A81", "U+1A91", "U+1B51", "U+1BB1", "U+1C41",
     "U+1C51", "U+A621", "U+A8D1", "U+A901", "U+A9D1", "U+A9F1", "U+AA51",
     "U+ABF1", "U+FF11", "U+104A1", "U+10D31", "U+11067", "U+110F1",
     "U+11137", "U+111D1", "U+112F1", "U+11451", "U+114D1", "U+11651",
     "U+116C1", "U+11731", "U+118E1", "U+11951", "U+11C51", "U+11D51",
     "U+11DA1", "U+11F51", "U+16A61", "U+16AC1", "U+16B51", "U+1D7CF",
     "U+1D7D9", "U+1D7E3", "U+1D7ED", "U+1D7F7", "U+1E141", "U+1E2F1",
     "U+1E4F1", "U+1E951", "U+1FBF1"}

Digits2 ==
    {"2", "U+0662", "U+06F2", "U+07C2", "U+0968", "U+09E8", "U+0A68",
     "U+0AE8", "U+0B68", "U+0BE8", "U+0C68", "U+0CE8", "U+0D68", "U+0DE8",
     "U+0E52", "U+0ED2", "U+0F22", "U+1042", "U+1092", "U+17E2", "U+1812",
     "U+1948", "U+19D2", "U+1A82", "U+1A92", "U+1B52", "U+1BB2", "U+1C42",
     "U+1C52", "U+A622", "U+A8D2", "U+A902", "U+A9D2", "U+A9F2", "U+AA52",
     "U+ABF2", "U+FF12", "U+104A2", "U+10D32", "U+11068", "U+110F2",
     "U+11138", "U+111D2", "U+112F2", "U+11452", "U+114D2", "U+11652",
     "U+116C2", "U+11732", "U+118E2", "U+11952", "U+11C52", "U+11D52",
     "U+11DA2", "U+11F52", "U+16A62", "U+16AC2", "U+16B52", "U+1D7D0",
     "U+1D7DA", "U+1D7E4", "U+1D7EE", "U+1D7F8", "U+1E142", "U+1E2F2",
     "U+1E4F2", "U+1E952", "U+1FBF2"}

Digits3 ==
    {"3", "U+0663", "U+06F3", "U+07C3", "U+0969", "U+09E9", "U+0A69",
     "U+0AE9", "U+0B69", "U+0BE9", "U+0C69", "U+0CE9", "U+0D69", "U+0DE9",
     "U+0E53", "U+0ED3", "U+0F23", "U+1043", "U+1093", "U+17E3", "U+1813",
     "U+1949", "U+19D3", "U+1A83", "U+1A93", "U+1B53", "U+1BB3", "U+1C43",
     "U+1C53", "U+A623", "U+A8D3", "U+A903", "U+A9D3", "U+A9F3", "U+AA53",
     "U+ABF3", "U+FF13", "U+104A3", "U+10D33", "U+11069", "U+110F3",
     "U+11139", "U+111D3", "U+112F3", "U+11453", "U+114D3", "U+11653",
     "U+116C3", "U+11733", "U+118E3", "U+11953", "U+11C53", "U+11D53",
     "U+11DA3", "U+11F53", "U+16A63", "U+16AC3", "U+16B53", "U+1D7D1",
     "U+1D7DB", "U+1D7E5", "U+1D7EF", "U+1D7F9", "U+1E143", "U+1E2F3",
     "U+1E4F3", "U+1E953", "U+1FBF3"}

Digits4 ==
    {"4", "U+0664", "U+06F4", "U+07C4", "U+096A", "U+09EA", "U+0A6A",
     "U+0AEA", "U+0B6A", "U+0BEA", "U+0C6A", "U+0CEA", "U+0D6A", "U+0DEA",
     "U+0E54", "U+0ED4", "U+0F24", "U+1044", "U+1094", "U+17E4", "U+1814",
     "U+194A", "U+19D4", "U+1A84", "U+1A94", "U+1B54", "U+1BB4", "U+1C44",
     "U+1C54", "U+A624", "U+A8D4", "U+A904", "U+A9D4", "U+A9F4", "U+AA54",
     "U+ABF4", "U+FF14", "U+104A4", "U+10D34", "U+1106A", "U+110F4",
     "U+1113A", "U+111D4", "U+112F4", "U+11454", "U+114D4", "U+11654",
     "U+116C4", "U+11734", "U+118E4", "U+11954", "U+11C54", "U+11D54",
     "U+11DA4", "U+11F54", "U+16A64", "U+16AC4", "U+16B54", "U+1D7D2",
     "U+1D7DC", "U+1D7E6", "U+1D7F0", "U+1D7FA", "U+1E144", "U+1E2F4",
     "U+1E4F4", "U+1E954", "U+1FBF4"}

Digits5 ==
    {"5", "U+0665", "U+06F5", "U+07C5", "U+096B", "U+09EB", "U+0A6B",
     "U+0AEB", "U+0B6B", "U+0BEB", "U+0C6B", "U+0CEB", "U+0D6B", "U+0DEB",
     "U+0E55", "U+0ED5", "U+0F25", "U+1045", "U+1095", "U+17E5", "U+1815",
     "U+194B", "U+19D5", "U+1A85", "U+1A95", "U+1B55", "U+1BB5", "U+1C45",
     "U+1C55", "U+A625", "U+A8D5", "U+A905", "U+A9D5", "U+A9F5", "U+AA55",
     "U+ABF5", "U+FF15", "U+104A5", "U+10D35", "U+1106B", "U+110F5",
     "U+1113B", "U+111D5", "U+112F5", "U+11455", "U+114D5", "U+11655",
     "U+116C5", "U+11735", "U+118E5", "U+11955", "U+11C55", "U+11D55",
     "U+11DA5", "U+11F55", "U+16A65", "U+16AC5", "U+16B55", "U+1D7D3",
     "U+1D7DD", "U+1D7E7", "U+1D7F1", "U+1D7FB", "U+1E145", "U+1E2F5",
     "U+1E4F5", "U+1E955", "U+1FBF5"}

Digits6 ==
    {"6", "U+0666", "U+06F6", "U+07C6", "U+096C", "U+09EC", "U+0A6C",
     "U+0AEC", "U+0B6C", "U+0BEC", "U+0C6C", "U+0CEC", "U+0D6C", "U+0DEC",
     "U+0E56", "U+0ED6", "U+0F26", "U+1046", "U+1096", "U+17E6", "U+1816",
     "U+194C", "U+19D6", "U+1A86", "U+1A96", "U+1B56", "U+1BB6", "U+1C46",
     "U+1C56", "U+A626", "U+A8D6", "U+A906", "U+A9D6", "U+A9F6", "U+AA56",
     "U+ABF6", "U+FF16", "U+104A6", "U+10D36", "U+1106C", "U+110F6",
     "U+1113C", "U+111D6", "U+112F6", "U+11456", "U+114D6", "U+11656",
     "U+116C6", "U+11736", "U+118E6", "U+11956", "U+11C56", "U+11D56",
     "U+11DA6", "U+11F56", "U+16A66", "U+16AC6", "U+16B56", "U+1D7D4",
     "U+1D7DE", "U+1D7E8", "U+1D7F2", "U+1D7FC", "U+1E146", "U+1E2F6",
     "U+1E4F6", "U+1E956", "U+1FBF6"}

Digits7 ==
    {"7", "U+0667", "U+06F7", "U+07C7", "U+096D", "U+09ED", "U+0A6D",
     "U+0AED", "U+0B6D", "U+0BED", "U+0C6D", "U+0CED", "U+0D6D", "U+0DED",
     "U+0E57", "U+0ED7", "U+0F27", "U+1047", "U+1097", "U+17E7", "U+1817",
     "U+194D", "U+19D7", "U+1A87", "U+1A97", "U+1B57", "U+1BB7", "U+1C47",
     "U+1C57", "U+A627", "U+A8D7", "U+A907", "U+A9D7", "U+A9F7", "U+AA57",
     "U+ABF7", "U+FF17", "U+104A7", "U+10D37", "U+1106D", "U+110F7",
     "U+1113D", "U+111D7", "U+112F7", "U+11457", "U+114D7", "U+11657",
     "U+116C7", "U+11737", "U+118E7", "U+11957", "U+11C57", "U+11D57",
     "U+11DA7", "U+11F57", "U+16A67", "U+16AC7", "U+16B57", "U+1D7D5",
     "U+1D7DF", "U+1D7E9", "U+1D7F3", "U+1D7FD", "U+1E147", "U+1E2F7",
     "U+1E4F7", "U+1E957", "U+1FBF7"}

Digits8 ==
    {"8", "U+0668", "U+06F8", "U+07C8", "U+096E", "U+09EE", "U+0A6E",
     "U+0AEE", "U+0B6E", "U+0BEE", "U+0C6E", "U+0CEE", "U+0D6E", "U+0DEE",
     "U+0E58", "U+0ED8", "U+0F28", "U+1048", "U+1098", "U+17E8", "U+1818",
     "U+194E", "U+19D8", "U+1A88", "U+1A98", "U+1B58", "U+1BB8", "U+1C48",
     "U+1C58", "U+A628", "U+A8D8", "U+A908", "U+A9D8", "U+A9F8", "U+AA58",
     "U+ABF8", "U+FF18", "U+104A8", "U+10D38", "U+1106E", "U+110F8",
     "U+1113E", "U+111D8", "U+112F8", "U+11458", "U+114D8", "U+11658",
     "U+116C8", "U+11738", "U+118E8", "U+11958", "U+11C58", "U+11D58",
     "U+11DA8", "U+11F58", "U+16A68", "U+16AC8", "U+16B58", "U+1D7D6",
     "U+1D7E0", "U+1D7EA", "U+1D7F4", "U+1D7FE", "U+1E148", "U+1E2F8",
     "U+1E4F8", "U+1E958", "U+1FBF8"}

Digits9 ==
    {"9", "U+0669", "U+06F9", "U+07C9", "U+096F", "U+09EF", "U+0A6F",
     "U+0AEF", "U+0B6F", "U+0BEF", "U+0C6F", "U+0CEF", "U+0D6F", "U+0DEF",
     "U+0E59", "U+0ED9", "U+0F29", "U+1049", "U+1099", "U+17E9", "U+1819",
     "U+194F", "U+19D9", "U+1A89", "U+1A99", "U+1B59", "U+1BB9", "U+1C49",
     "U+1C59", "U+A629", "U+A8D9", "U+A909", "U+A9D9", "U+A9F9", "U+AA59",
     "U+ABF9", "U+FF19", "U+104A9", "U+10D39", "U+1106F", "U+110F9",
     "U+1113F", "U+111D9", "U+112F9", "U+11459", "U+114D9", "U+11659",
     "U+116C9", "U+11739", "U+118E9", "U+11959", "U+11C59", "U+11D59",
     "U+11DA9", "U+11F59", "U+16A69", "U+16AC9", "U+16B59", "U+1D7D7",
     "U+1D7E1", "U+1D7EB", "U+1D7F5", "U+1D7FF", "U+1E149", "U+1E2F9",
     "U+1E4F9", "U+1E959", "U+1FBF9"}
\* int() of one decimal digit
DigitVal ==
    [c \in UNION {Digits0, Digits1, Digits2, Digits3, Digits4,
                  Digits5, Digits6, Digits7, Digits8, Digits9} |->
        CASE c \in Digits0 -> 0 [] c \in Digits1 -> 1 [] c \in Digits2 -> 2
          [] c \in Digits3 -> 3 [] c \in Digits4 -> 4 [] c \in Digits5 -> 5
          [] c \in Digits6 -> 6 [] c \in Digits7 -> 7 [] c \in Digits8 -> 8
          [] c \in Digits9 -> 9]

\* the regex class \d on a str pattern
IsDigit(c) == c \in DOMAIN DigitVal

\* the characters str.split() and str.strip() treat as whitespace: those of
\* str.isspace().  After the blank: \t \n \r \f, then \x0b \x1c \x1d \x1e \x1f
Whitespace ==
    {" ", "\t", "\n", "\r", "\f", "", "", "", "", "",
     "U+0085", "U+00A0", "U+1680", "U+2000", "U+2001", "U+2002", "U+2003",
     "U+2004", "U+2005", "U+2006", "U+2007", "U+2008", "U+2009", "U+200A",
     "U+2028", "U+2029", "U+202F", "U+205F", "U+3000"}

IsSpace(c) == c \in Whitespace

\* str(n) for n >= 0
RECURSIVE Decimal(_)
Decimal(n) ==
    LET digit == <<"0", "1", "2", "3", "4", "5", "6", "7", "8", "9">>[(n % 10) + 1] IN
    IF n < 10 THEN <<digit>> ELSE Decimal(n \div 10) \o <<digit>>

\* sys.int_info.default_max_str_digits
IntMaxStrDigits == 4300

\* int(value) for a non-empty string of digits.  Python's int is unbounded:
\* the number is kept as the sequence of its decimal digit values, leading
\* zeros included.  A string of more than 4300 digits raises ValueError.
IntOf(s) ==
    IF Len(s) > IntMaxStrDigits
    THEN [kind |-> "ValueError", digits |-> <<>>]
    ELSE [kind |-> "ok", digits |-> [i \in 1..Len(s) |-> DigitVal[s[i]]]]

(***************************************************************************)
(* parse_duration (main.py:51-65).                                         *)
(***************************************************************************)
\* the keys of the units dict (main.py:53-58) and the class [mhdw]
Units == {"m", "h", "d", "w"}

\* (\d+) is greedy: the number of digits of s from position i on
DigitRun(s, i) ==
    LET stop == {j \in i..Len(s) : ~IsDigit(s[j])} IN
    IF stop = {} THEN Len(s) - i + 1
    ELSE (CHOOSE j \in stop : \A k \in stop : j <= k) - i

\* Python's $ (no re.MULTILINE): at the end of the string, or just before a
\* newline that is the string's last character
AtDollar(s, pos) ==
    \/ pos = Len(s) + 1
    \/ pos = Len(s) /\ s[pos] = "\n"

\* re.match(r'^(\d+)([mhdw])$', s): the groups, or matched = FALSE for None
ReMatch(s) ==
    LET n == DigitRun(s, 1) IN
    IF n >= 1 /\ n + 1 <= Len(s) /\ s[n + 1] \in Units /\ AtDollar(s, n + 2)
    THEN [matched |-> TRUE, value |-> SubSeq(s, 1, n), unit |-> s[n + 1]]
    ELSE [matched |-> FALSE, value |-> <<>>, unit |-> ""]

\* datetime.timedelta.max.days
TimedeltaMaxDays == 999999999

\* INT_MAX of the C int the day count is converted to
CIntMax == 2147483647

\* stands for a day count above CIntMax
TooLarge == -1

SecondsPerDay == 86400

\* 10 * q + x, or TooLarge when that is above CIntMax
Shift(q, x) ==
    IF q = TooLarge \/ q > (CIntMax - x) \div 10 THEN TooLarge ELSE 10 * q + x

\* divmod(n, d) for the number n written by the first i of the digits
RECURSIVE DivMod(_, _, _)
DivMod(digits, i, d) ==
    IF i = 0 THEN [q |-> 0, r |-> 0]
    ELSE LET p   == DivMod(digits, i - 1, d)
             cur == 10 * p.r + digits[i]
         IN  [q |-> Shift(p.q, cur \div d), r |-> cur % d]

\* the digits of n from its first non-zero digit on
Significant(digits) ==
    LET nonzero == {i \in 1..Len(digits) : digits[i] # 0} IN
    IF nonzero = {} THEN <<>>
    ELSE SubSeq(digits, CHOOSE i \in nonzero : \A k \in nonzero : i <= k, Len(digits))

\* 10^13 minutes are more than CIntMax days: a count of more than 13
\* significant digits is above CIntMax days in every unit
MaxSignificant == 13

\* timedelta(**{units[unit]: n}): normalised to days and seconds;
\* OverflowError when the day count does not fit a C int or leaves the
\* range of timedelta
Timedelta(unit, n) ==
    LET sig  == Significant(n)
        per  == CASE unit = "m" -> 1440
                  [] unit = "h" -> 24
                  [] unit = "d" -> 1
                  [] unit = "w" -> 1
        dm   == IF Len(sig) > MaxSignificant THEN [q |-> TooLarge, r |-> 0]
                ELSE DivMod(sig, Len(sig), per)
        days == IF unit # "w" THEN dm.q
                ELSE IF dm.q = TooLarge \/ dm.q > CIntMax \div 7 THEN TooLarge
                ELSE 7 * dm.q
        secs == CASE unit = "m" -> dm.r * 60
                  [] unit = "h" -> dm.r * 3600
                  [] unit = "d" -> 0
                  [] unit = "w" -> 0
    IN  IF days = TooLarge
        THEN [kind |-> "OverflowError", days |-> 0, seconds |-> 0,
              error |-> <<"Python int too large to convert to C int">>]
        ELSE IF days > TimedeltaMaxDays
        THEN [kind |-> "OverflowError", days |-> 0, seconds |-> 0,
              error |-> <<"days=">> \o Decimal(days)
                        \o <<"; must have magnitude <= 999999999">>]
        ELSE [kind |-> "ok", days |-> days, seconds |-> secs, error |-> <<>>]

\* the message of the ValueError of main.py:62
InvalidFormat ==
    <<"Invalid duration format. Use <number><unit> where unit is m,h,d,w">>

parse_duration(duration_str) ==
    LET match == ReMatch(duration_str) IN
    IF ~match.matched
    THEN [kind |-> "ValueError", days |-> 0, seconds |-> 0, error |-> InvalidFormat]
    ELSE LET value == IntOf(match.value) IN
         IF value.kind # "ok"
         THEN [kind |-> "ValueError", days |-> 0, seconds |-> 0,
               error |-> <<"Exceeds the limit (4300 digits) for integer string conversion: value has ">>
                         \o Decimal(Len(match.value))
                         \o <<" digits; use sys.set_int_max_str_digits() to increase the limit">>]
         ELSE Timedelta(match.unit, value.digits)

(***************************************************************************)
(* str.split(sep), str.split(), str.strip(), str.join.                     *)
(***************************************************************************)
\* s.split(sep) for a one-character sep: always at least one piece, empty
\* pieces kept
RECURSIVE SplitOn(_, _)
SplitOn(s, sep) ==
    IF \A i \in 1..Len(s) : s[i] # sep THEN <<s>>
    ELSE LET i == CHOOSE j \in 1..Len(s) :
                      s[j] = sep /\ \A k \in 1..(j - 1) : s[k] # sep
         IN  <<SubSeq(s, 1, i - 1)>> \o SplitOn(SubSeq(s, i + 1, Len(s)), sep)

\* s.strip()
RECURSIVE Strip(_)
Strip(s) ==
    IF Len(s) = 0 THEN s
    ELSE IF IsSpace(s[1]) THEN Strip(Tail(s))
    ELSE IF IsSpace(s[Len(s)]) THEN Strip(SubSeq(s, 1, Len(s) - 1))
    ELSE s

\* s.split(): pieces separated by runs of whitespace, no empty piece
RECURSIVE SplitWhitespace(_)
SplitWhitespace(s) ==
    IF Len(s) = 0 THEN <<>>
    ELSE IF IsSpace(s[1]) THEN SplitWhitespace(Tail(s))
    ELSE LET stop == {j \in 1..Len(s) : IsSpace(s[j])}
             n    == IF stop = {} THEN Len(s)
                     ELSE (CHOOSE j \in stop : \A k \in stop : j <= k) - 1
         IN  <<SubSeq(s, 1, n)>> \o SplitWhitespace(SubSeq(s, n + 1, Len(s)))

\* sep.join(parts)
RECURSIVE Join(_, _)
Join(parts, sep) ==
    IF Len(parts) = 0 THEN <<>>
    ELSE IF Len(parts) = 1 THEN parts[1]
    ELSE parts[1] \o sep \o Join(Tail(parts), sep)

\* [f(x) for x in seq if keep(x)] with f = keep = strip
RECURSIVE StripNonEmpty(_)
StripNonEmpty(parts) ==
    IF Len(parts) = 0 THEN <<>>
    ELSE LET u == Strip(Head(parts)) IN
         (IF Len(u) > 0 THEN <<u>> ELSE <<>>) \o StripNonEmpty(Tail(parts))

\* x in list
InList(x, list) == \E i \in 1..Len(list) : list[i] = x

(***************************************************************************)
(* Config (main.py:16-32).  An environment variable is [set, val].         *)
(***************************************************************************)
Unset == [set |-> FALSE, val |-> <<>>]

Set(v) == [set |-> TRUE, val |-> v]

\* os.environ.get(name, default)
EnvGet(env, name, default) == IF env[name].set THEN env[name].val ELSE default

\* the default_factory of Config.MATTERMOST_TOKENS
LoadTokens(env) ==
    StripNonEmpty(SplitOn(EnvGet(env, "MATTERMOST_TOKENS", <<>>), ","))

\* Config(): built once, at import
NewConfig(env) ==
    [MATTERMOST_TOKENS |-> LoadTokens(env),
     ALERTMANAGER_URL  |-> EnvGet(env, "ALERTMANAGER_URL", <<"http://alertmanager:9093">>)]

\* Config.get_approved_users: None is [set |-> FALSE]
get_approved_users(env) ==
    LET users == EnvGet(env, "ALLOWED_USERS", <<>>) IN
    IF Len(users) = 0 THEN Unset
    ELSE Set(StripNonEmpty(SplitOn(users, ",")))

(***************************************************************************)
(* datetime: [ord, sec, us] is a UTC instant, ord the proleptic Gregorian  *)
(* day ordinal (0001-01-01 is 1), sec the second of that day and us the    *)
(* microsecond of that second.                                             *)
(***************************************************************************)
\* datetime.max.toordinal(): 9999-12-31
MaxOrdinal == 3652059

IsLeap(y) == y % 4 = 0 /\ (y % 100 # 0 \/ y % 400 = 0)

DaysInMonth(y, m) ==
    IF m = 2 THEN (IF IsLeap(y) THEN 29 ELSE 28)
    ELSE IF m \in {4, 6, 9, 11} THEN 30 ELSE 31

RECURSIVE DaysBeforeMonth(_, _)
DaysBeforeMonth(y, m) ==
    IF m = 1 THEN 0 ELSE DaysBeforeMonth(y, m - 1) + DaysInMonth(y, m - 1)

DaysBeforeYear(y) ==
    LET p == y - 1 IN p * 365 + p \div 4 - p \div 100 + p \div 400

\* the calendar date of a day ordinal, as datetime computes it
Ord2Ymd(ordinal) ==
    LET n0   == ordinal - 1
        n400 == n0 \div 146097
        r400 == n0 % 146097
        n100 == r400 \div 36524
        r100 == r400 % 36524
        n4   == r100 \div 1461
        r4   == r100 % 1461
        n1   == r4 \div 365
        n    == r4 % 365
        year == n400 * 400 + 1 + n100 * 100 + n4 * 4 + n1
    IN  IF n1 = 4 \/ n100 = 4
        THEN [year |-> year - 1, month |-> 12, day |-> 31]
        ELSE LET est   == (n + 50) \div 32
                 month == IF DaysBeforeMonth(year, est) > n THEN est - 1 ELSE est
             IN  [year |-> year, month |-> month,
                  day |-> n - DaysBeforeMonth(year, month) + 1]

\* datetime.isoformat() of an aware UTC datetime, field by field:
\* YYYY-MM-DDTHH:MM:SS.ffffff+00:00
isoformat(dt) ==
    LET d == Ord2Ymd(dt.ord) IN
    [year |-> d.year, month |-> d.month, day |-> d.day,
     hour |-> dt.sec \div 3600, minute |-> (dt.sec % 3600) \div 60,
     second |-> dt.sec % 60, microsecond |-> dt.us, offset |-> "+00:00"]

\* datetime + timedelta with the carry into the day dropped
DatetimeAdd_NoCarry(dt, td) ==
    [kind |-> "ok", ord |-> dt.ord + td.days,
     sec |-> (dt.sec + td.seconds) % SecondsPerDay, us |-> dt.us]

\* datetime + timedelta: OverflowError past datetime.max
DatetimeAdd(dt, td) ==
    LET total == dt.sec + td.seconds
        day   == dt.ord + td.days + total \div SecondsPerDay
    IN  IF day > MaxOrdinal
        THEN [kind |-> "OverflowError", ord |-> 0, sec |-> 0, us |-> 0]
        ELSE [kind |-> "ok", ord |-> day, sec |-> total % SecondsPerDay, us |-> dt.us]

(***************************************************************************)
(* create_silence (main.py:67-87).                                         *)
(***************************************************************************)
\* label.split("=")[1]
MatcherValue(parts) == parts[2]

\* the list comprehension of main.py:73-74 over matcher.split(","); indexing
\* [1] of a label without "=" raises IndexError
RECURSIVE Matchers(_)
Matchers(labels) ==
    IF Len(labels) = 0 THEN [kind |-> "ok", list |-> <<>>]
    ELSE LET parts == SplitOn(Head(labels), "=")
             rest  == Matchers(Tail(labels))
         IN  IF Len(parts) < 2 \/ rest.kind # "ok"
             THEN [kind |-> "IndexError", list |-> <<>>]
             ELSE [kind |-> "ok",
                   list |-> <<[name |-> parts[1], value |-> MatcherValue(parts),
                               isRegex |-> FALSE]>> \o rest.list]

\* end_time = start_time + duration (main.py:70)
EndTime(start_time, duration) == DatetimeAdd(start_time, duration)

NoRequest ==
    [url |-> <<>>, matchers |-> <<>>,
     startsAt |-> isoformat([ord |-> 1, sec |-> 0, us |-> 0]),
     endsAt |-> isoformat([ord |-> 1, sec |-> 0, us |-> 0]),
     createdBy |-> <<>>, comment |-> <<>>]

\* create_silence up to its await: the POST it issues, or the exception raised
\* before any request is sent.  now is the one reading of the clock.
BuildSilence(cfg, matcher, duration, comment, username, now) ==
    LET start_time == now
        end_time   == EndTime(start_time, duration)
        matchers   == Matchers(SplitOn(matcher, ","))
    IN  IF end_time.kind # "ok"
        THEN [kind |-> "raise", error |-> "date value out of range", post |-> NoRequest]
        ELSE IF matchers.kind # "ok"
        THEN [kind |-> "raise", error |-> "list index out of range", post |-> NoRequest]
        ELSE [kind |-> "post", error |-> "",
              post |-> [url       |-> cfg.ALERTMANAGER_URL \o <<"/api/v2/silences">>,
                        matchers  |-> matchers.list,
                        startsAt  |-> isoformat(start_time),
                        endsAt    |-> isoformat(end_time),
                        createdBy |-> <<"mattermost-bot:">> \o username,
                        comment   |-> comment \o <<" (created-by: ">> \o username
                                              \o <<")">>]]

\* what the backend can answer to the POST
BackendResponses ==
    {[kind |-> "transport_error", silenceID |-> <<>>],   \* httpx.TransportError
     [kind |-> "status_error", silenceID |-> <<>>],      \* raise_for_status()
     [kind |-> "not_json", silenceID |-> <<>>],          \* response.json() fails
     [kind |-> "no_silence_id", silenceID |-> <<>>],     \* KeyError
     [kind |-> "ok", silenceID |-> <<"i", "d">>]}

(***************************************************************************)
(* handle_silence_command (main.py:93-159).                                *)
(***************************************************************************)
\* the fields of MattermostCommand (main.py:39-49), all required
FormFields ==
    {"token", "team_id", "team_domain", "channel_id", "channel_name",
     "user_id", "user_name", "command", "text", "response_url"}

\* MattermostCommand(**form_data) (main.py:96): pydantic raises
\* ValidationError when the form lacks a field.  A form is [fields, token,
\* user_name, text]: the names it carries and the values the handler reads.
Binds(form_data) == FormFields \subseteq form_data.fields

HttpError(code, detail) == [status |-> code, response_type |-> "", text |-> <<detail>>]

Message(type, text) == [status |-> 200, response_type |-> type, text |-> text]

NoReply == [status |-> 0, response_type |-> "", text |-> <<>>]

UsageText ==
    <<"Usage: /silence <matcher> <duration> <comment>\nExample: /silence alertname=HighCPU,severity=critical 2h CPU alert silenced">>

\* the usage check compares against 2, so a command without comment passes
TooFewArgs_OffByOne(args) == Len(args) < 2

\* len(args) < 3 (main.py:117)
TooFewArgs(args) == Len(args) < 3

\* the token check reads the environment again instead of the loaded config
TokenList_FromEnviron(cfg, env) == LoadTokens(env)

\* config.MATTERMOST_TOKENS as the handler reads it (main.py:99, 102)
TokenList(cfg, env) == cfg.MATTERMOST_TOKENS

\* command.token in config.MATTERMOST_TOKENS
TokenAccepted(token, tokens) == InList(token, tokens)

\* approved_users is not None and command.user_name not in approved_users
UserRejected(approved_users, user_name) ==
    approved_users.set /\ ~InList(user_name, approved_users.val)

\* only the third argument is taken as the comment
Comment_ThirdOnly(args) == args[3]

\* " ".join(args[2:]) (main.py:126)
Comment(args) == Join(SubSeq(args, 3, Len(args)), <<" ">>)

\* the handler from the form to the await of the POST (main.py:95-132):
\* either the reply it returns at once, or the POST it issues.  The
\* ValidationError of main.py:96 is raised outside the try and no handler is
\* registered for it: the framework answers HTTP 500.
Handle(cfg, env, form_data, now) ==
    LET command == form_data
        tokens  == TokenList(cfg, env)
        args    == SplitWhitespace(command.text)
    IN  IF ~Binds(form_data)
        THEN [kind |-> "reply", post |-> NoRequest,
              reply |-> HttpError(500, "Internal Server Error")]
        ELSE IF Len(tokens) = 0
        THEN [kind |-> "reply", post |-> NoRequest,
              reply |-> HttpError(500, "No Mattermost tokens configured")]
        ELSE IF ~TokenAccepted(command.token, tokens)
        THEN [kind |-> "reply", post |-> NoRequest,
              reply |-> HttpError(401, "Invalid token")]
        ELSE IF UserRejected(get_approved_users(env), command.user_name)
        THEN [kind |-> "reply", post |-> NoRequest,
              reply |-> Message("ephemeral",
                                <<"You are not authorized to create silences.">>)]
        ELSE IF TooFewArgs(args)
        THEN [kind |-> "reply", post |-> NoRequest,
              reply |-> Message("ephemeral", UsageText)]
        ELSE
        LET matcher      == args[1]
            duration_str == args[2]
            comment      == Comment(args)
            duration     == parse_duration(duration_str)
        IN  IF duration.kind = "ValueError"
            THEN [kind |-> "reply", post |-> NoRequest,
                  reply |-> Message("ephemeral", <<"Error: ">> \o duration.error)]
            ELSE IF duration.kind = "OverflowError"
            THEN [kind |-> "reply", post |-> NoRequest,
                  reply |-> Message("ephemeral",
                                    <<"An error occurred: ">> \o duration.error)]
            ELSE
            LET built == BuildSilence(cfg, matcher, duration, comment,
                                      command.user_name, now)
            IN  IF built.kind = "raise"
                THEN [kind |-> "reply", post |-> NoRequest,
                      reply |-> Message("ephemeral",
                                        <<"An error occurred: ", built.error>>)]
                ELSE [kind |-> "post", post |-> built.post, reply |-> NoReply]

\* the handler from the backend's answer on (main.py:86-87, 134-159)
Finish(command, response) ==
    LET args         == SplitWhitespace(command.text)
        matcher      == args[1]
        duration_str == args[2]
        comment      == Comment(args)
    IN  CASE response.kind = "ok" ->
               Message("in_channel",
                   \* (the literal's leading bell emoji is left out)
                   <<"Alert silenced successfully!\nSilence ID: ">> \o response.silenceID
                   \o <<"\nMatcher: ">> \o matcher
                   \o <<"\nDuration: ">> \o duration_str
                   \o <<"\nComment: ">> \o comment
                   \o <<"\nCreated by: ">> \o command.user_name)
          [] response.kind = "not_json" ->        \* JSONDecodeError is a ValueError
               Message("ephemeral", <<"Error: ", "Expecting value">>)
          [] response.kind = "no_silence_id" ->
               Message("ephemeral", <<"An error occurred: ", "'silenceID'">>)
          [] OTHER ->
               Message("ephemeral", <<"An error occurred: ", response.kind>>)

(***************************************************************************)
(* The server: one task per request.  The event loop runs a handler        *)
(* without interruption from the arrival of the form up to its await on    *)
(* the backend, and other requests are received while it waits there.      *)
(***************************************************************************)
Tasks == {1, 2}

TokenEnvValues ==
    {Unset, Set(<<",">>),
     Set(<<"s", "", ",", " ", "t", "U+00A0">>)}

UserEnvValues ==
    {Unset, Set(<<>>), Set(<<",">>), Set(<<"a", ",", "b">>), Set(<<" ", "a", "">>)}

UrlEnvValues == {Unset, Set(<<"http://am:9093">>)}

Environments ==
    [MATTERMOST_TOKENS : TokenEnvValues, ALLOWED_USERS : UserEnvValues,
     ALERTMANAGER_URL : {Unset}]

Texts ==
    {<<"a", "=", "b", " ", "2", "h">>,
     <<"a", "=", "b", " ", "2", "h", " ", "c">>,
     <<" ", "a", "=", "b", ",", "c", "=", "d", "", "\t", "1", "m", "U+00A0", "",
       "x", "\n", "y", "U+2003">>,
     <<"a", "=", "b", " ", "U+0662", "x", " ", "c">>,
     <<"a", "b", " ", "2", "h", " ", "c">>,
     <<"a", "=", "b", "=", "c", " ", "0", "d", " ", "c">>,
     <<"a", "=", "b", " ", "9", "9", "9", "9", "9", "9", "w", " ", "c">>,
     <<"a", "=", "b", " ", "1", "0", "0", "0", "0", "0", "0", "0", "0", "0", "d", " ", "c">>}

\* forms that lack a field the handler does not read, or the token
IncompleteForms ==
    {[fields |-> FormFields \ {"response_url"}, token |-> <<"s">>,
      user_name |-> <<"a">>, text |-> <<"a", "=", "b", " ", "2", "h", " ", "c">>],
     [fields |-> FormFields \ {"token"}, token |-> <<>>,
      user_name |-> <<"a">>, text |-> <<"a", "=", "b", " ", "2", "h", " ", "c">>],
     [fields |-> FormFields \ {"team_id"}, token |-> <<"x">>,
      user_name |-> <<"c">>, text |-> <<>>]}

Commands ==
    [fields : {FormFields}, token : {<<"s">>, <<"x">>}, user_name : {<<"a">>, <<"c">>},
     text : Texts]
    \cup IncompleteForms

NoCommand == [fields |-> {}, token |-> <<>>, user_name |-> <<>>, text |-> <<>>]

IdleTask ==
    [pc |-> "idle", command |-> NoCommand, now |-> [ord |-> 1, sec |-> 0, us |-> 0],
     allowed |-> Unset, posts |-> <<>>, reply |-> NoReply, replies |-> 0,
     response |-> "none"]

\* 2026-10-30T23:59:30.250000+00:00
ClockStart == [ord |-> 739919, sec |-> 86370, us |-> 250000]

NotCalled == [kind |-> "not called", days |-> 0, seconds |-> 0, error |-> <<>>]

InitServer ==
    /\ environ \in Environments
    /\ startup = environ
    /\ config = NewConfig(environ)
    /\ clock = ClockStart
    /\ tasks = [t \in Tasks |-> IdleTask]

Init ==
    /\ InitServer
    /\ arg = <<>>
    /\ ret = NotCalled

\* a request arrives, is given the first free task, and its handler runs to
\* its reply or to the POST
Receive(t, form_data) ==
    /\ tasks[t].pc = "idle"
    /\ \A u \in DOMAIN tasks : u < t => tasks[u].pc # "idle"
    /\ LET h == Handle(config, environ, form_data, clock) IN
       tasks' = [tasks EXCEPT ![t] =
           IF h.kind = "post"
           THEN [IdleTask EXCEPT !.pc = "awaiting", !.command = form_data, !.now = clock,
                                 !.allowed = environ.ALLOWED_USERS, !.posts = <<h.post>>]
           ELSE [IdleTask EXCEPT !.pc = "done", !.command = form_data, !.now = clock,
                                 !.allowed = environ.ALLOWED_USERS, !.reply = h.reply, !.replies = 1]]
    /\ UNCHANGED <<environ, config, clock, startup, arg, ret>>

\* the backend answers (or the transport fails) and the handler replies
BackendResponds(t, response) ==
    /\ tasks[t].pc = "awaiting"
    /\ tasks' = [tasks EXCEPT ![t].pc = "done",
                              ![t].reply = Finish(tasks[t].command, response),
                              ![t].replies = tasks[t].replies + 1,
                              ![t].response = response.kind]
    /\ UNCHANGED <<environ, config, clock, startup, arg, ret>>

\* the reply is delivered; nothing of the request is kept
Close(t) ==
    /\ tasks[t].pc = "done"
    /\ tasks' = [tasks EXCEPT ![t] = IdleTask]
    /\ UNCHANGED <<environ, config, clock, startup, arg, ret>>

\* time passes
Tick ==
    /\ (clock.ord - ClockStart.ord) * SecondsPerDay + clock.sec - ClockStart.sec
          < MaxTicks * 30
    /\ clock' = [ord |-> clock.ord + (clock.sec + 30) \div SecondsPerDay,
                 sec |-> (clock.sec + 30) % SecondsPerDay,
                 us  |-> clock.us]
    /\ UNCHANGED <<environ, config, startup, tasks, arg, ret>>

Next ==
    \/ \E t \in DOMAIN tasks : \E form_data \in Commands : Receive(t, form_data)
    \/ \E t \in DOMAIN tasks : \E response \in BackendResponses : BackendResponds(t, response)
    \/ \E t \in DOMAIN tasks : Close(t)
    \/ Tick

Spec == Init /\ [][Next]_vars

(***************************************************************************)
(* The environment of the running process is changed while requests are    *)
(* served (os.environ is writable; the program itself never writes it).    *)
(***************************************************************************)
SetEnv(name, value) ==
    /\ environ[name] # value
    /\ environ' = [environ EXCEPT ![name] = value]
    /\ UNCHANGED <<config, clock, startup, tasks, arg, ret>>

\* the values MATTERMOST_TOKENS is changed to
EnvTokenValues == {Unset, Set(<<",">>), Set(<<"s">>)}

EnvCommands ==
    {form_data \in Commands : form_data.text = <<"a", "=", "b", " ", "2", "h", " ", "c">>}

InitEnv ==
    /\ environ \in [MATTERMOST_TOKENS : {Unset, Set(<<"s">>)},
                    ALLOWED_USERS : {Unset, Set(<<"a", ",", "b">>)},
                    ALERTMANAGER_URL : {Unset}]
    /\ startup = environ
    /\ config = NewConfig(environ)
    /\ clock = ClockStart
    /\ tasks = [t \in Tasks |-> IdleTask]
    /\ arg = <<>>
    /\ ret = NotCalled

NextEnv ==
    \/ \E t \in DOMAIN tasks : \E form_data \in EnvCommands : Receive(t, form_data)
    \/ \E t \in DOMAIN tasks : \E response \in BackendResponses : BackendResponds(t, response)
    \/ \E t \in DOMAIN tasks : Close(t)
    \/ \E value \in EnvTokenValues : SetEnv("MATTERMOST_TOKENS", value)
    \/ \E value \in UserEnvValues : SetEnv("ALLOWED_USERS", value)
    \/ \E value \in UrlEnvValues : SetEnv("ALERTMANAGER_URL", value)

SpecEnv == InitEnv /\ [][NextEnv]_vars

(***************************************************************************)
(* parse_duration called directly: on every short string over an alphabet  *)
(* that holds digits, the unit letters and what the pattern must refuse,   *)
(* and on counts at the limits of int() and of timedelta.                  *)
(***************************************************************************)
DurationAlphabet ==
    {"0", "1", "7", "U+0663", "m", "h", "d", "w", "H", " ", "\n", ".", "-"}

Repeat(c, n) == [i \in 1..n |-> c]

\* counts at the limits of int() and of timedelta that are accepted, and a
\* count of nineteen written in Kawi and Nag Mundari digits
LongDurations ==
    {<<"U+11F51", "U+1E4F9", "m">>,
     Repeat("0", IntMaxStrDigits - 1) \o <<"1", "h">>,
     <<"9", "9", "9", "9", "9", "9", "9", "9", "9", "d">>,
     <<"1", "4", "2", "8", "5", "7", "1", "4", "2", "w">>}

\* counts beyond those limits
TooLongDurations ==
    {Repeat("9", IntMaxStrDigits + 1) \o <<"d">>,
     Repeat("9", IntMaxStrDigits) \o <<"m">>,
     <<"1", "4", "2", "8", "5", "7", "1", "4", "3", "w">>,
     <<"3", "0", "6", "7", "8", "3", "3", "7", "9", "w">>,
     <<"3", "0", "9", "2", "3", "7", "6", "4", "5", "3", "1", "2", "0", "m">>}

DefaultEnv ==
    [MATTERMOST_TOKENS |-> Set(<<"s">>), ALLOWED_USERS |-> Unset,
     ALERTMANAGER_URL |-> Unset]

\* a server with one request in flight at most
InitCall ==
    /\ environ = DefaultEnv
    /\ startup = DefaultEnv
    /\ config = NewConfig(DefaultEnv)
    /\ clock = ClockStart
    /\ tasks = [t \in {1} |-> IdleTask]
    /\ ret = NotCalled

InitDuration ==
    /\ InitCall
    /\ arg \in Strings(DurationAlphabet, MaxDurationLen) \cup LongDurations

CallParseDuration ==
    /\ ret.kind = "not called"
    /\ ret' = parse_duration(arg)
    /\ UNCHANGED <<environ, config, clock, startup, tasks, arg>>

SpecDuration == InitDuration /\ [][CallParseDuration]_vars

(***************************************************************************)
(* The handler run on every short command text, from an accepted token and *)
(* with no allow-list.                                                     *)
(***************************************************************************)
TextAlphabet == {"=", "1", "m", " "}

LongTexts ==
    {<<"a", "=", "b", " ">> \o duration_str \o <<" ", "c">> :
        duration_str \in LongDurations \cup TooLongDurations}

InitArgs ==
    /\ InitCall
    /\ arg \in Strings(TextAlphabet, MaxTextLen) \cup Texts \cup LongTexts

NextArgs ==
    \/ \E t \in DOMAIN tasks :
          Receive(t, [fields |-> FormFields, token |-> <<"s">>,
                      user_name |-> <<"a">>, text |-> arg])
    \/ \E t \in DOMAIN tasks : \E response \in BackendResponses : BackendResponds(t, response)

SpecArgs == InitArgs /\ [][NextArgs]_vars

(***************************************************************************)
(* Vocabulary of the properties.                                           *)
(***************************************************************************)
ToSet(list) == {list[i] : i \in 1..Len(list)}

Handled(t) == tasks[t].pc # "idle"

Done(t) == tasks[t].pc = "done"

\* the token set the server was configured with
ConfiguredTokens == ToSet(config.MATTERMOST_TOKENS)

\* the request's token is one of the configured tokens
TokenIn(t) ==
    /\ "token" \in tasks[t].command.fields
    /\ tasks[t].command.token \in ConfiguredTokens

\* the request carries the ten form fields
Complete(t) == tasks[t].command.fields = FormFields

\* the token check was reached and passed
TokenOk(t) == Complete(t) /\ TokenIn(t)

\* the usernames ALLOWED_USERS yields; none when it is absent
AllowedNames(value) ==
    LET approved == get_approved_users([ALLOWED_USERS |-> value]) IN
    IF approved.set THEN ToSet(approved.val) ELSE {}

NotAuthorized == Message("ephemeral", <<"You are not authorized to create silences.">>)

\* the whitespace-separated tokens of a text, by position
TokenStarts(s) ==
    {i \in 1..Len(s) : ~IsSpace(s[i]) /\ (i = 1 \/ IsSpace(s[i - 1]))}

TokenEnds(s) ==
    {i \in 1..Len(s) : ~IsSpace(s[i]) /\ (i = Len(s) \/ IsSpace(s[i + 1]))}

NumTokens(s) == Cardinality(TokenStarts(s))

Nth(set, n) == CHOOSE i \in set : Cardinality({j \in set : j < i}) = n - 1

Token(s, n) == SubSeq(s, Nth(TokenStarts(s), n), Nth(TokenEnds(s), n))

\* a timestamp of a payload read back as an instant
FromIso(ts) ==
    [ord |-> DaysBeforeYear(ts.year) + DaysBeforeMonth(ts.year, ts.month) + ts.day,
     sec |-> ts.hour * 3600 + ts.minute * 60 + ts.second,
     us  |-> ts.microsecond]

\* later - earlier as a normalised span of days, seconds and microseconds
Elapsed(earlier, later) ==
    LET us   == later.us - earlier.us
        sec  == later.sec - earlier.sec - (IF us < 0 THEN 1 ELSE 0)
        days == later.ord - earlier.ord - (IF sec < 0 THEN 1 ELSE 0)
    IN  [days |-> days,
         seconds |-> IF sec < 0 THEN sec + SecondsPerDay ELSE sec,
         microseconds |-> IF us < 0 THEN us + 1000000 ELSE us]

NotBefore(earlier, later) == Elapsed(earlier, later).days >= 0

\* the span of a parsed duration, without its kind
Span(duration) ==
    [days |-> duration.days, seconds |-> duration.seconds, microseconds |-> 0]

(***************************************************************************)
(* C1.  Token authentication: with no token configured every request is    *)
(* answered HTTP 500; otherwise a request whose token is not one of the    *)
(* configured tokens is answered HTTP 401.  Either way no call goes to the *)
(* backend, whatever the user name and the text are.                       *)
(***************************************************************************)
C1_TokenAuthentication ==
    \A t \in DOMAIN tasks : Handled(t) =>
        /\ ConfiguredTokens = {} =>
              /\ Done(t)
              /\ tasks[t].reply.status = 500
              /\ tasks[t].posts = <<>>
        /\ (ConfiguredTokens # {} /\ ~TokenIn(t)) =>
              /\ Done(t)
              /\ tasks[t].reply.status = 401
              /\ tasks[t].posts = <<>>

(***************************************************************************)
(* C2.  Username allow-list: a request whose token was accepted is         *)
(* rejected as unauthorized if and only if ALLOWED_USERS yields at least   *)
(* one username and the request's user_name is not among them; the         *)
(* rejection is an HTTP 200 ephemeral reply without any outbound call.     *)
(***************************************************************************)
C2_AllowListRestrictsOnlyWhenNonEmpty ==
    \A t \in DOMAIN tasks : (Handled(t) /\ TokenOk(t)) =>
        LET names    == AllowedNames(tasks[t].allowed)
            rejected == Done(t) /\ tasks[t].reply = NotAuthorized
        IN  /\ rejected <=> (names # {} /\ tasks[t].command.user_name \notin names)
            /\ rejected => tasks[t].posts = <<>>

(***************************************************************************)
(* C3.  Only "no tokens" (500) and "bad token" (401) are HTTP errors:      *)
(* every request with a configured token is answered HTTP 200, with        *)
(* response_type "in_channel" exactly when the outbound call was made and  *)
(* returned a silence identifier, and "ephemeral" for every other outcome. *)
(***************************************************************************)
C3_OnlyTokenFailuresAreHttpErrors ==
    \A t \in DOMAIN tasks : Done(t) =>
        /\ TokenIn(t) =>
              /\ tasks[t].reply.status = 200
              /\ tasks[t].reply.response_type \in {"in_channel", "ephemeral"}
              /\ tasks[t].reply.response_type = "in_channel"
                    <=> (tasks[t].posts # <<>> /\ tasks[t].response = "ok")
        /\ tasks[t].reply.status # 200 =>
              /\ ~TokenIn(t)
              /\ tasks[t].reply.status = (IF ConfiguredTokens = {} THEN 500 ELSE 401)

(***************************************************************************)
(* C4.  One inbound request, at most one outbound call, no retry.          *)
(***************************************************************************)
\* the token check (reached once the form is bound), the allow-list check,
\* the argument count, the duration parse and the matcher construction
ChecksPass(t) ==
    LET c    == tasks[t].command
        args == SplitWhitespace(c.text)
    IN  /\ TokenOk(t)
        /\ ~UserRejected(get_approved_users([ALLOWED_USERS |-> tasks[t].allowed]),
                         c.user_name)
        /\ Len(args) >= 3
        /\ parse_duration(args[2]).kind = "ok"
        /\ Matchers(SplitOn(args[1], ",")).kind = "ok"

EndTimeInRange(t) ==
    LET args == SplitWhitespace(tasks[t].command.text) IN
    DatetimeAdd(tasks[t].now, parse_duration(args[2])).kind = "ok"

OneReplyNoRetry(t) ==
    /\ Len(tasks[t].posts) <= 1
    /\ tasks[t].replies = (IF Done(t) THEN 1 ELSE 0)

\* C4 as claimed: the POST is issued exactly once when the token check, the
\* allow-list check, the argument count, the duration parse and the matcher
\* construction all succeed, and never otherwise; a failed attempt is not
\* repeated and gives exactly one reply.
C4_OnePostIffChecksPass ==
    \A t \in DOMAIN tasks : Handled(t) =>
        /\ Len(tasks[t].posts) = (IF ChecksPass(t) THEN 1 ELSE 0)
        /\ OneReplyNoRetry(t)

\* C4 as amended: the POST is issued exactly once when the token check, the
\* allow-list check, the argument count, the duration parse, the computation
\* of the end time (start + duration within datetime's range) and the matcher
\* construction all succeed, and never otherwise; a failed attempt is not
\* repeated and gives exactly one reply.
C4_OnePostIffChecksPassAndEndTimeInRange ==
    \A t \in DOMAIN tasks : Handled(t) =>
        /\ Len(tasks[t].posts) = (IF ChecksPass(t) /\ EndTimeInRange(t) THEN 1 ELSE 0)
        /\ OneReplyNoRetry(t)

\* one POST, a transport error, one failure reply, while a second request
\* waits for the backend
C4_Witness ==
    \E t \in DOMAIN tasks : \E u \in DOMAIN tasks :
        /\ Done(t)
        /\ Len(tasks[t].posts) = 1
        /\ tasks[t].response = "transport_error"
        /\ tasks[t].replies = 1
        /\ tasks[t].reply.response_type = "ephemeral"
        /\ tasks[u].pc = "awaiting"

(***************************************************************************)
(* C5.  parse_duration against the pattern ^\d+[mhdw]$ read as "the whole  *)
(* string is one or more digits and then one unit letter": a string of     *)
(* that form gives the span of its decimal count in its unit, every other  *)
(* string fails with the invalid-format error.                             *)
(***************************************************************************)
Called == ret.kind # "not called"

\* the whole string is digits followed by one unit letter
WholeMatch(s) ==
    /\ Len(s) >= 2
    /\ \A i \in 1..(Len(s) - 1) : IsDigit(s[i])
    /\ s[Len(s)] \in Units

\* the decimal value of the digits before the unit letter, leading zeros
\* skipped
RECURSIVE Value(_, _, _)
Value(s, i, acc) ==
    IF i >= Len(s) THEN acc ELSE Value(s, i + 1, 10 * acc + DigitVal[s[i]])

Count(s) ==
    LET nonzero == {i \in 1..(Len(s) - 1) : DigitVal[s[i]] # 0} IN
    IF nonzero = {} THEN 0
    ELSE Value(s, CHOOSE i \in nonzero : \A k \in nonzero : i <= k, 0)

\* span is count units long
SpanIs(span, count, unit) ==
    /\ span.seconds \in 0..(SecondsPerDay - 1)
    /\ CASE unit = "m" -> span.days * 1440 + span.seconds \div 60 = count
                          /\ span.seconds % 60 = 0
         [] unit = "h" -> span.days * 24 + span.seconds \div 3600 = count
                          /\ span.seconds % 3600 = 0
         [] unit = "d" -> span.days = count /\ span.seconds = 0
         [] unit = "w" -> span.days = 7 * count /\ span.seconds = 0

InvalidFormatError == ret.kind = "ValueError" /\ ret.error = InvalidFormat

C5_ParseDurationMatchesPattern ==
    Called =>
        IF WholeMatch(arg)
        THEN ret.kind = "ok" /\ SpanIs(ret, Count(arg), arg[Len(arg)])
        ELSE InvalidFormatError

(***************************************************************************)
(* C6.  parse_duration fails with the invalid-format error unless its      *)
(* input is exactly a positive integer (a count of at least 1) immediately *)
(* followed by one lower-case unit letter of m, h, d, w: no whitespace, no *)
(* fractional value, no multi-unit composite, no upper-case unit and no    *)
(* count that is not a positive integer is accepted.                       *)
(***************************************************************************)
\* the count is at least 1
Positive(s) == \E i \in 1..(Len(s) - 1) : DigitVal[s[i]] # 0

C6_AcceptsOnlyPositiveCountAndUnit ==
    Called =>
        (~InvalidFormatError => (WholeMatch(arg) /\ Positive(arg)))

(***************************************************************************)
(* C7.  Argument splitting: the text is split on whitespace; with fewer    *)
(* than 3 tokens the reply is the ephemeral usage text and nothing is      *)
(* sent; otherwise matcher is the first token, duration the second, and    *)
(* comment the remaining tokens in order, joined by single spaces.         *)
(***************************************************************************)
\* the comment a payload carries, without the " (created-by: <user>)" suffix
SentComment(post) == SubSeq(post.comment, 1, Len(post.comment) - 3)

C7_ArgumentSplitting ==
    \A t \in DOMAIN tasks : Handled(t) =>
        LET text == tasks[t].command.text
            n    == NumTokens(text)
            rest == [i \in 1..(n - 2) |-> Token(text, i + 2)]
        IN  IF n < 3
            THEN /\ Done(t)
                 /\ tasks[t].reply = Message("ephemeral", UsageText)
                 /\ tasks[t].posts = <<>>
            ELSE /\ tasks[t].reply # Message("ephemeral", UsageText)
                 /\ \A i \in 1..Len(tasks[t].posts) :
                       LET post == tasks[t].posts[i] IN
                       /\ post.matchers = Matchers(SplitOn(Token(text, 1), ",")).list
                       /\ Elapsed(FromIso(post.startsAt), FromIso(post.endsAt))
                             = Span(parse_duration(Token(text, 2)))
                       /\ SplitOn(SentComment(post), " ") = rest
                 /\ tasks[t].reply.response_type = "in_channel" =>
                       tasks[t].reply.text =
                           <<"Alert silenced successfully!\nSilence ID: ", "i", "d",
                             "\nMatcher: ">> \o Token(text, 1)
                           \o <<"\nDuration: ">> \o Token(text, 2)
                           \o <<"\nComment: ">> \o SentComment(tasks[t].posts[1])
                           \o <<"\nCreated by: ">> \o tasks[t].command.user_name

\* a text whose tokens are separated by runs of blanks, tabs, newlines,
\* vertical tabs, separators and no-break spaces, sent with its two comment
\* tokens joined by one space
C7_Witness ==
    \E t \in DOMAIN tasks :
        /\ tasks[t].command.text =
             <<" ", "a", "=", "b", ",", "c", "=", "d", "", "\t", "1", "m", "U+00A0",
               "", "x", "\n", "y", "U+2003">>
        /\ Len(tasks[t].posts) = 1
        /\ SentComment(tasks[t].posts[1]) = <<"x", " ", "y">>
        /\ tasks[t].reply.response_type = "in_channel"

(***************************************************************************)
(* C8.  Matcher list: one entry per comma-separated segment of the         *)
(* matcher, in order, each with isRegex false, its name the text before    *)
(* the segment's first "=" and its value everything after that first "=".  *)
(***************************************************************************)
FirstEquals(label) == CHOOSE i \in 1..Len(label) :
                          label[i] = "=" /\ \A k \in 1..(i - 1) : label[k] # "="

C8_MatcherSplitOnFirstEquals ==
    \A t \in DOMAIN tasks : \A i \in 1..Len(tasks[t].posts) :
        LET labels == SplitOn(Token(tasks[t].command.text, 1), ",")
            list   == tasks[t].posts[i].matchers
        IN  /\ Len(list) = Len(labels)
            /\ \A k \in 1..Len(labels) :
                  LET e == FirstEquals(labels[k]) IN
                  list[k] = [name    |-> SubSeq(labels[k], 1, e - 1),
                             value   |-> SubSeq(labels[k], e + 1, Len(labels[k])),
                             isRegex |-> FALSE]

(***************************************************************************)
(* C9.  In every payload sent, endsAt is startsAt plus the duration parsed *)
(* from the request's duration token; both come from the one reading of    *)
(* the clock taken for the request, and endsAt is never before startsAt.   *)
(***************************************************************************)
C9_EndsAtIsStartsAtPlusDuration ==
    \A t \in DOMAIN tasks : \A i \in 1..Len(tasks[t].posts) :
        LET post     == tasks[t].posts[i]
            duration == parse_duration(Token(tasks[t].command.text, 2))
            starts   == FromIso(post.startsAt)
            ends     == FromIso(post.endsAt)
        IN  /\ starts = tasks[t].now
            /\ Elapsed(starts, ends) = Span(duration)
            /\ NotBefore(starts, ends)

\* a silence of one minute asked half a minute before midnight ends on the
\* next calendar day; a request that arrived later waits beside it
C9_Witness ==
    \E t \in DOMAIN tasks : \E u \in DOMAIN tasks :
        /\ Len(tasks[t].posts) = 1
        /\ Token(tasks[t].command.text, 2) = <<"1", "m">>
        /\ tasks[t].posts[1].startsAt.day = 30
        /\ tasks[t].posts[1].endsAt.day = 31
        /\ tasks[t].posts[1].endsAt.hour = 0
        /\ Len(tasks[u].posts) = 1
        /\ tasks[u].posts[1].startsAt.day = 31

(***************************************************************************)
(* C10.  Configuration and the environment.                                *)
(***************************************************************************)
\* what the handler does with a command under given tokens, URL and
\* allow-list setting
Outcome(env, allowed, t) ==
    Handle(NewConfig(env), [env EXCEPT !.ALLOWED_USERS = allowed],
           tasks[t].command, tasks[t].now)

DecidedBy(env, allowed, t) ==
    LET h == Outcome(env, allowed, t) IN
    /\ tasks[t].posts = (IF h.kind = "post" THEN <<h.post>> ELSE <<>>)
    /\ (Done(t) /\ h.kind = "reply") => tasks[t].reply = h.reply
    /\ (Done(t) /\ h.kind = "post") =>
          \E response \in BackendResponses :
              /\ response.kind = tasks[t].response
              /\ tasks[t].reply = Finish(tasks[t].command, response)

\* C10 as claimed: the token set, the backend URL and the allow-list that
\* decide a request are the values the environment held at process start; a
\* later change of the environment changes no outcome.
C10_DecidedByStartupEnvironment ==
    \A t \in DOMAIN tasks : Handled(t) =>
        DecidedBy(startup, startup.ALLOWED_USERS, t)

\* C10 as amended: the token set and the backend URL that decide a request are
\* the values the environment held at process start, and a later change of
\* MATTERMOST_TOKENS or ALERTMANAGER_URL changes no outcome; the allow-list is
\* read from ALLOWED_USERS anew at every request, so the request is decided by
\* the value ALLOWED_USERS holds when it arrives.  For any interleaving of
\* requests, those with the same form fields, the same ALLOWED_USERS at
\* arrival and the same backend response receive the same reply.
C10_StartupTokensAndUrlCurrentAllowList ==
    \A t \in DOMAIN tasks : Handled(t) =>
        DecidedBy(startup, tasks[t].allowed, t)

\* two requests wait for the backend together, both accepted on the startup
\* token and sent to the startup URL; the environment was changed before the
\* first arrived and again between the two
C10_Witness ==
    /\ tasks[1].pc = "awaiting"
    /\ tasks[2].pc = "awaiting"
    /\ startup.MATTERMOST_TOKENS = Set(<<"s">>)
    /\ environ.MATTERMOST_TOKENS = Set(<<",">>)
    /\ startup.ALERTMANAGER_URL = Unset
    /\ environ.ALERTMANAGER_URL = Set(<<"http://am:9093">>)
    /\ tasks[1].allowed = Set(<<"a", ",", "b">>)
    /\ tasks[2].allowed = Unset
    /\ tasks[2].command.user_name = <<"c">>
    /\ \A t \in DOMAIN tasks :
          tasks[t].posts[1].url = <<"http://alertmanager:9093", "/api/v2/silences">>

====
